---- MODULE Spec2Model ----
(***************************************************************************)
(* Model of the bazaar data collection pipeline:                           *)
(*   src/src/data/collectors.py        BazaarDataCollector                  *)
(*   src/src/data/models.py            BazaarItem, SessionLocal             *)
(*   src/src/scripts/collect_bazaar_data.py       DataCollectionService     *)
(*   src/src/scripts/collect_full_bazaar_history.py  backfill script        *)
(*                                                                         *)
(* One program runs per behaviour (prog): the recurring snapshot service,  *)
(* the per-item backfill script, or BazaarDataCollector.collect_full_history.*)
(* Upstream responses and database faults are the environment's choices.   *)
(***************************************************************************)
EXTENDS Integers, Sequences, FiniteSets, TLC

(***************************************************************************)
(* Bounds of the model.                                                    *)
(***************************************************************************)
MaxCycles == 2      \* snapshot cycles a service run may start
MaxProducts == 2    \* products in one snapshot response
MaxItems == 2       \* item ids in one catalog response
MaxEntries == 2     \* entries in one history response

\* settings.py: COLLECTION_INTERVAL
COLLECTION_INTERVAL == 3

(***************************************************************************)
(* JSON values.  Every value is a record of the same shape so that values  *)
(* of different JSON types can be compared.                                *)
(***************************************************************************)
Num(n) == [t |-> "num", n |-> n, s |-> ""]
Str(s) == [t |-> "str", n |-> 0, s |-> s]
Null == [t |-> "null", n |-> 0, s |-> ""]

\* dict.get(key, default)
Get(d, k, default) == IF k \in DOMAIN d THEN d[k] ELSE default

\* the empty dict
EmptyDict == [k \in {} |-> Null]

\* Restriction of a dict to some of its keys (used to enumerate inputs).
Restrict(d, keys) == [k \in keys |-> d[k]]

(***************************************************************************)
(* models.py: the columns of bazaar_items and the declarative constructor. *)
(***************************************************************************)
BazaarItemColumns ==
    {"id", "item_id", "timestamp", "buy_price", "sell_price", "max_buy",
     "max_sell", "min_buy", "min_sell", "buy_volume", "sell_volume"}

\* A column the constructor was not given is NULL in the inserted row
\* (no numeric column declares a default, and both callers pass timestamp);
\* id is the autoincrement key and is represented by the row's position in
\* the table.
ColumnOf(kwargs, c) == IF c \in DOMAIN kwargs THEN kwargs[c] ELSE Null

\* BazaarItem(**kwargs): the declarative constructor raises TypeError for a
\* keyword that is not an attribute of the mapped class.
BazaarItem(kwargs) ==
    IF DOMAIN kwargs \subseteq BazaarItemColumns
    THEN [exc |-> "none",
          row |-> [c \in BazaarItemColumns \ {"id"} |-> ColumnOf(kwargs, c)]]
    ELSE [exc |-> "TypeError", row |-> EmptyDict]

NumericColumns ==
    {"buy_price", "sell_price", "buy_volume", "sell_volume",
     "max_buy", "max_sell", "min_buy", "min_sell"}

(***************************************************************************)
(* The snapshot endpoint and get_current_prices.                           *)
(***************************************************************************)
\* Item identifiers of the upstream catalog.
ItemName == <<"A", "B", "C", "D">>

QuickKeys ==
    {"sellPrice", "sellVolume", "sellMovingWeek",
     "buyPrice", "buyVolume", "buyMovingWeek"}

QSFull ==
    [k \in QuickKeys |->
        CASE k = "sellPrice" -> Num(4)
          [] k = "sellVolume" -> Num(20)
          [] k = "sellMovingWeek" -> Num(70)
          [] k = "buyPrice" -> Num(5)
          [] k = "buyVolume" -> Num(10)
          [] OTHER -> Num(60)]

\* quick_status objects the upstream may send: some fields missing, or a
\* field present with a JSON null.
QSPartial == Restrict(QSFull, {"sellPrice", "buyVolume", "buyMovingWeek"})
QSNull == [QSFull EXCEPT !["buyPrice"] = Null]

\* product objects: without quick_status, with an empty one, with a filled one
ProductDatas ==
    {EmptyDict,
     [k \in {"quick_status"} |-> EmptyDict],
     [k \in {"quick_status"} |-> QSPartial],
     [k \in {"quick_status"} |-> QSNull]}

\* The products object, in document order: the first n catalog items, at
\* most one of them departing from the common shape of a product.
ProductsOfLen(n) ==
    {p \in [1..n -> [id : {ItemName[k] : k \in 1..n}, pd : ProductDatas]] :
        /\ \A k \in 1..n : p[k].id = ItemName[k]
        /\ Cardinality({k \in 1..n : p[k].pd # [q \in {"quick_status"} |-> QSPartial]}) <= 1}

SnapshotResponses ==
    {[status |-> 500, success |-> "true", products |-> <<>>],
     [status |-> 200, success |-> "false", products |-> <<>>],
     [status |-> 200, success |-> "missing", products |-> <<>>]}
    \cup
    {[status |-> 200, success |-> "true", products |-> p] :
        p \in UNION {ProductsOfLen(n) : n \in 0..MaxProducts}}

\* collectors.py 53-60: the price entry of one product
PriceEntry(quick_status) ==
    [k \in {"sell_price", "sell_volume", "sell_moving_week",
            "buy_price", "buy_volume", "buy_moving_week"} |->
        CASE k = "sell_price" -> Get(quick_status, "sellPrice", Num(0))
          [] k = "sell_volume" -> Get(quick_status, "sellVolume", Num(0))
          [] k = "sell_moving_week" -> Get(quick_status, "sellMovingWeek", Num(0))
          [] k = "buy_price" -> Get(quick_status, "buyPrice", Num(0))
          [] k = "buy_volume" -> Get(quick_status, "buyVolume", Num(0))
          [] OTHER -> Get(quick_status, "buyMovingWeek", Num(0))]

\* collectors.py 49-62: the prices mapping, in insertion order
RECURSIVE Prices(_)
Prices(products) ==
    IF products = <<>> THEN <<>>
    ELSE LET p == products[1]
             quick_status == Get(p.pd, "quick_status", EmptyDict)
             rest == Prices(Tail(products))
         IN IF quick_status # EmptyDict
            THEN <<[id |-> p.id, item_data |-> PriceEntry(quick_status)]>> \o rest
            ELSE rest

\* Variant of GetCurrentPrices: the success flag of the body is not tested.
GetCurrentPrices_IgnoreSuccess(resp) ==
    IF resp.status # 200 THEN [exc |-> "Exception", prices |-> <<>>]
    ELSE [exc |-> "none", prices |-> Prices(resp.products)]

\* collectors.py 38-65: get_current_prices
GetCurrentPrices(resp) ==
    IF resp.status # 200 THEN [exc |-> "Exception", prices |-> <<>>]
    ELSE IF resp.success # "true" THEN [exc |-> "Exception", prices |-> <<>>]
    ELSE [exc |-> "none", prices |-> Prices(resp.products)]

\* Variant of SnapshotKwargs: buy_price is read from the sell side.
SnapshotKwargs_Swapped(item_id, item_data, utcnow) ==
    [k \in {"item_id", "timestamp"} \cup NumericColumns |->
        CASE k = "item_id" -> Str(item_id)
          [] k = "timestamp" -> Num(utcnow)
          [] k = "buy_price" -> Get(item_data, "sell_price", Num(0))
          [] k = "sell_price" -> Get(item_data, "sell_price", Num(0))
          [] k = "max_buy" -> Get(item_data, "max_buy", Num(0))
          [] k = "max_sell" -> Get(item_data, "max_sell", Num(0))
          [] k = "min_buy" -> Get(item_data, "min_buy", Num(0))
          [] k = "min_sell" -> Get(item_data, "min_sell", Num(0))
          [] k = "buy_volume" -> Get(item_data, "buy_volume", Num(0))
          [] OTHER -> Get(item_data, "sell_volume", Num(0))]

\* collectors.py 162-173: the row built for one item of the mapping
SnapshotKwargs(item_id, item_data, utcnow) ==
    [k \in {"item_id", "timestamp"} \cup NumericColumns |->
        CASE k = "item_id" -> Str(item_id)
          [] k = "timestamp" -> Num(utcnow)
          [] k = "buy_price" -> Get(item_data, "buy_price", Num(0))
          [] k = "sell_price" -> Get(item_data, "sell_price", Num(0))
          [] k = "max_buy" -> Get(item_data, "max_buy", Num(0))
          [] k = "max_sell" -> Get(item_data, "max_sell", Num(0))
          [] k = "min_buy" -> Get(item_data, "min_buy", Num(0))
          [] k = "min_sell" -> Get(item_data, "min_sell", Num(0))
          [] k = "buy_volume" -> Get(item_data, "buy_volume", Num(0))
          [] OTHER -> Get(item_data, "sell_volume", Num(0))]

(***************************************************************************)
(* The database session (SessionLocal, autocommit off).  Rows added to a   *)
(* session are pending until commit; commit flushes the INSERTs inside one *)
(* transaction and makes them visible together; close discards whatever    *)
(* was not committed.                                                      *)
(***************************************************************************)
NoSession == [open |-> FALSE, pending |-> <<>>]

\* SessionLocal()
SessionLocal == [open |-> TRUE, pending |-> <<>>]

\* db.add(row)
Add(session, row) == [session EXCEPT !.pending = Append(@, row)]

\* Variant of Commit: every INSERT is committed as it is flushed.
Commit_PerInsert(table, pending, failAt) ==
    IF failAt = 0 THEN table \o pending
    ELSE table \o SubSeq(pending, 1, failAt - 1)

\* Variant of Commit: the flushed rows replace the rows of the table.
Commit_Replace(table, pending, failAt) ==
    IF failAt = 0 THEN pending ELSE table

\* db.commit(): failAt = 0 is a successful commit; failAt = k in 1..Len is a
\* database error on the k-th INSERT; failAt = Len + 1 an error on COMMIT.
\* The table after the call: a failed flush or commit rolls back.
Commit(table, pending, failAt) ==
    IF failAt = 0 THEN table \o pending ELSE table

\* Variant of Close: the session is not released.
Close_Leak(session) == session

\* db.close(): releases the connection, rolling back an open transaction
Close(session) == NoSession

(***************************************************************************)
(* The catalog and history endpoints.                                      *)
(***************************************************************************)
RECURSIVE SeqsUpTo(_, _)
SeqsUpTo(S, n) ==
    IF n = 0 THEN {<<>>}
    ELSE LET shorter == SeqsUpTo(S, n - 1)
         IN shorter \cup {Append(q, x) : q \in shorter, x \in S}

\* Catalog responses: an error status, or a list of item ids (an item may
\* be listed twice).
CatalogResponses ==
    {[status |-> 500, ids |-> <<>>]}
    \cup {[status |-> 200, ids |-> q] :
            q \in SeqsUpTo({ItemName[1], ItemName[2]}, MaxItems)}

\* collectors.py 19-29: get_all_item_ids
GetAllItemIds(resp) ==
    IF resp.status # 200 THEN [exc |-> "RequestException", ids |-> <<>>]
    ELSE [exc |-> "none", ids |-> resp.ids]

\* Strings the upstream may send, and what the parsers make of them.
IsoStrings == {"2025-01-10T00:00:00"}
IsoValue(s) == 100
NumericStrings == {"7"}
NumericValue(s) == 7

\* A well-formed history entry as the history endpoint sends it (no item_id).
HEFull ==
    [k \in {"timestamp", "buy", "sell", "buyVolume", "sellVolume",
            "maxBuy", "maxSell", "minBuy", "minSell"} |->
        CASE k = "timestamp" -> Str("2025-01-10T00:00:00")
          [] k = "buy" -> Num(5)
          [] k = "sell" -> Str("7")
          [] k = "buyVolume" -> Num(10)
          [] k = "sellVolume" -> Num(20)
          [] k = "maxBuy" -> Num(6)
          [] k = "maxSell" -> Num(5)
          [] k = "minBuy" -> Num(4)
          [] OTHER -> Num(3)]

With(d, k, v) == [x \in DOMAIN d \cup {k} |-> IF x = k THEN v ELSE d[x]]
Without(d, k) == [x \in DOMAIN d \ {k} |-> d[x]]

\* an entry that names an item itself, and carries both buy and buyPrice and
\* both sell and sellPrice
HEOwnId ==
    With(With(With(HEFull, "item_id", Str(ItemName[2])), "buyPrice", Num(8)),
         "sellPrice", Num(9))
\* an entry without a timestamp
HENoTs == Without(HEFull, "timestamp")
\* entries that cannot be normalized
HEBadNum == With(HEFull, "buy", Str("abc"))
HENullNum == With(HEFull, "buyVolume", Null)
HEBadTs == With(HEFull, "timestamp", Str("N/A"))

\* Entries whose differences collect_full_history can observe.
FullHistoryEntries == {HEFull, HEOwnId, HENoTs}
HistoryEntries == FullHistoryEntries \cup {HEBadNum, HENullNum, HEBadTs}

HistoryResponsesOver(entries) ==
    {[status |-> 500, entries |-> <<>>]}
    \cup {[status |-> 200, entries |-> q] : q \in SeqsUpTo(entries, MaxEntries)}

\* collectors.py 92-94: entries lacking item_id get the requested one
InjectItemId(entry, item_id) ==
    IF "item_id" \notin DOMAIN entry THEN With(entry, "item_id", Str(item_id))
    ELSE entry

\* collectors.py 74-99: get_item_history
GetItemHistory(resp, item_id) ==
    IF resp.status # 200 THEN [exc |-> "RequestException", data |-> <<>>]
    ELSE [exc |-> "none",
          data |-> [k \in 1..Len(resp.entries) |->
                        InjectItemId(resp.entries[k], item_id)]]

\* Variant of FullHistoryRecord: the item id is read from the entry.
FullHistoryRecord_EntryId(entry, item) ==
    [k \in {"timestamp", "item_id", "max_buy", "max_sell", "min_buy",
            "min_sell", "buy", "sell", "buy_volume", "sell_volume"} |->
        CASE k = "timestamp" -> Get(entry, "timestamp", Str("N/A"))
          [] k = "item_id" -> Get(entry, "item_id", Str(item))
          [] k = "max_buy" -> Get(entry, "maxBuy", Num(0))
          [] k = "max_sell" -> Get(entry, "maxSell", Num(0))
          [] k = "min_buy" -> Get(entry, "minBuy", Num(0))
          [] k = "min_sell" -> Get(entry, "minSell", Num(0))
          [] k = "buy" -> Get(entry, "buy", Num(0))
          [] k = "sell" -> Get(entry, "sell", Num(0))
          [] k = "buy_volume" -> Get(entry, "buyVolume", Num(0))
          [] OTHER -> Get(entry, "sellVolume", Num(0))]

\* collectors.py 125-136: the record collect_full_history appends
FullHistoryRecord(entry, item) ==
    [k \in {"timestamp", "item_id", "max_buy", "max_sell", "min_buy",
            "min_sell", "buy", "sell", "buy_volume", "sell_volume"} |->
        CASE k = "timestamp" -> Get(entry, "timestamp", Str("N/A"))
          [] k = "item_id" -> Str(item)
          [] k = "max_buy" -> Get(entry, "maxBuy", Num(0))
          [] k = "max_sell" -> Get(entry, "maxSell", Num(0))
          [] k = "min_buy" -> Get(entry, "minBuy", Num(0))
          [] k = "min_sell" -> Get(entry, "minSell", Num(0))
          [] k = "buy" -> Get(entry, "buy", Num(0))
          [] k = "sell" -> Get(entry, "sell", Num(0))
          [] k = "buy_volume" -> Get(entry, "buyVolume", Num(0))
          [] OTHER -> Get(entry, "sellVolume", Num(0))]

(***************************************************************************)
(* store_historical_data: the conversions of one entry.                    *)
(***************************************************************************)
\* parser.isoparse(x): a datetime for an ISO-8601 string, ValueError for any
\* other string, TypeError for a value that is not a string
IsoParse(x) ==
    IF x.t # "str" THEN [exc |-> "TypeError", v |-> Null]
    ELSE IF x.s \in IsoStrings THEN [exc |-> "none", v |-> Num(IsoValue(x.s))]
    ELSE [exc |-> "ValueError", v |-> Null]

\* float(x) and int(x): the number itself, the value of a numeric string,
\* ValueError for any other string, TypeError for None
ToNumber(x) ==
    IF x.t = "num" THEN [exc |-> "none", v |-> x]
    ELSE IF x.t = "null" THEN [exc |-> "TypeError", v |-> Null]
    ELSE IF x.s \in NumericStrings THEN [exc |-> "none", v |-> Num(NumericValue(x.s))]
    ELSE [exc |-> "ValueError", v |-> Null]

\* Variant of ParsedTimestamp: an entry without a timestamp is refused.
ParsedTimestamp_Reject(entry, utcnow) ==
    IF "timestamp" \in DOMAIN entry THEN IsoParse(entry["timestamp"])
    ELSE [exc |-> "ValueError", v |-> Null]

\* datetime.utcnow().isoformat() read back by isoparse is the same instant;
\* the default is an ISO string, so a missing timestamp parses.
ParsedTimestamp(entry, utcnow) ==
    IF "timestamp" \in DOMAIN entry THEN IsoParse(entry["timestamp"])
    ELSE [exc |-> "none", v |-> Num(utcnow)]

\* collectors.py 196-207: the keyword arguments, in evaluation order
HistoryArgs(entry, item_id, utcnow) ==
    << <<"timestamp", ParsedTimestamp(entry, utcnow)>>,
       <<"item_id", [exc |-> "none", v |-> Str(item_id)]>>,
       <<"buy_price", ToNumber(Get(entry, "buy", Get(entry, "buyPrice", Num(0))))>>,
       <<"sell_price", ToNumber(Get(entry, "sell", Get(entry, "sellPrice", Num(0))))>>,
       <<"buy_volume", ToNumber(Get(entry, "buyVolume", Num(0)))>>,
       <<"sell_volume", ToNumber(Get(entry, "sellVolume", Num(0)))>>,
       <<"buy_moving_week", ToNumber(Get(entry, "buyMovingWeek", Num(0)))>>,
       <<"sell_moving_week", ToNumber(Get(entry, "sellMovingWeek", Num(0)))>> >>

\* the exception of the first argument whose evaluation raises
RECURSIVE FirstExc(_)
FirstExc(args) ==
    IF args = <<>> THEN "none"
    ELSE IF args[1][2].exc # "none" THEN args[1][2].exc
    ELSE FirstExc(Tail(args))

HistoryKwargs(entry, item_id, utcnow) ==
    LET args == HistoryArgs(entry, item_id, utcnow)
    IN [k \in {args[j][1] : j \in 1..Len(args)} |->
            args[CHOOSE j \in 1..Len(args) : args[j][1] = k][2].v]

\* collectors.py 194-215: one iteration of the loop over the entries.
\* kind "add": the row is handed to db.add; "skip": KeyError or ValueError,
\* logged, the loop continues; "raise": any other exception leaves the loop.
HistoryEntryOutcome(entry, item_id, utcnow) ==
    LET argExc == FirstExc(HistoryArgs(entry, item_id, utcnow))
        built == BazaarItem(HistoryKwargs(entry, item_id, utcnow))
        e == IF argExc # "none" THEN argExc ELSE built.exc
    IN IF e = "none" THEN [kind |-> "add", exc |-> "none", row |-> built.row]
       ELSE IF e \in {"KeyError", "ValueError"}
            THEN [kind |-> "skip", exc |-> "none", row |-> EmptyDict]
       ELSE [kind |-> "raise", exc |-> e, row |-> EmptyDict]

(***************************************************************************)
(* State.                                                                  *)
(***************************************************************************)
VARIABLES
    prog,        \* the program of this run: "service", "backfill", "fullhistory"
    interval,    \* settings.COLLECTION_INTERVAL as configured for the run
    rate_limit_delay, \* argument of collect_full_history
    pc,          \* position of the program
    now,         \* the clock (datetime.utcnow)
    store,       \* committed rows of bazaar_items, in insertion order
    db,          \* the session of the store call in progress
    exc,         \* exception raised inside the store call in progress
    result,      \* outcome of the last finished store call: "none", "ok", "error"
    fetched,     \* outcome of the last fetch: "none", "ok", "error"
    is_running,  \* DataCollectionService.is_running
    handlers,    \* the signal handlers are installed
    data,        \* the fetched data being processed
    raw,         \* the entries of the last history response, as received
    i,           \* loop index into data
    item_ids,    \* the catalog
    idx,         \* loop index into item_ids
    all_data,    \* collect_full_history: the records collected so far
    cycles,      \* collect_data calls started
    sleeps,      \* waits started
    signal_at,   \* phase of run() when handle_shutdown first ran, or "no"
    fetch_failures, \* get_item_history calls of this run that raised
    response,    \* the snapshot response get_current_prices has just read
    batch,       \* the batch a caller hands to store_historical_data again
    requested,   \* items whose history this run has requested, in order
    tx_base      \* the table as it was when the current store call began

vars ==
    <<prog, interval, rate_limit_delay, pc, now, store, db, exc, result,
      fetched, is_running, handlers, data, raw, i, item_ids, idx, all_data, cycles,
      sleeps, signal_at, fetch_failures, response, batch, requested, tx_base>>

\* No snapshot response is at hand.
NoResponse == [status |-> 0, success |-> "none", products |-> <<>>]

Programs == {"service", "backfill", "fullhistory", "retry"}

InitOf(p) ==
    /\ prog = p
    /\ interval \in (IF p = "service" THEN {0, COLLECTION_INTERVAL} ELSE {COLLECTION_INTERVAL})
    /\ rate_limit_delay \in (IF p = "fullhistory" THEN {0, 1} ELSE {0})
    /\ pc = "idle"
    /\ now = 0
    /\ store = <<>>
    /\ db = NoSession
    /\ exc = "none"
    /\ result = "none"
    /\ fetched = "none"
    /\ is_running = FALSE
    /\ handlers = FALSE
    /\ data = <<>>
    /\ raw = <<>>
    /\ i = 1
    /\ item_ids = (IF p = "retry" THEN <<ItemName[1], ItemName[1]>> ELSE <<>>)
    /\ idx = 1
    /\ all_data = <<>>
    /\ cycles = 0
    /\ sleeps = 0
    /\ signal_at = "no"
    /\ fetch_failures = 0
    /\ response = NoResponse
    /\ batch \in (IF p = "retry" THEN SeqsUpTo(HistoryEntries, MaxEntries) ELSE {<<>>})
    /\ requested = <<>>
    /\ tx_base = <<>>

Init == \E p \in Programs : InitOf(p)

(***************************************************************************)
(* DataCollectionService (collect_bazaar_data.py).                         *)
(***************************************************************************)
\* Variant of CollectDataCatch: the exception of the cycle leaves run().
CollectDataCatch_Propagate(e) == IF e = "none" THEN "after" ELSE "crashed"

\* collect_bazaar_data.py 21-27: collect_data catches every Exception of the
\* cycle; the position of run() after the call
CollectDataCatch(e) == "after"

\* Variant of WhileCondition: the loop does not read the flag.
WhileCondition_Always(running) == TRUE

\* collect_bazaar_data.py 39: the loop condition
WhileCondition(running) == running

\* Variant of AfterCollect: the wait does not depend on the interval.
AfterCollect_AlwaysSleep(configured) == "sleep"

\* collect_bazaar_data.py 43-47: where run() goes after collect_data
AfterCollect(configured) == IF configured > 0 THEN "sleep" ELSE "loop"

\* The phases of run(): a cycle in flight (collect_data has been called and
\* has not returned), the wait, or the loop's own statements.
CyclePcs == {"snap_fetch", "snap_open", "snap_add", "snap_commit", "snap_close"}
Phase(p) == IF p \in CyclePcs THEN "cycle" ELSE IF p = "sleep" THEN "wait" ELSE p

\* collect_bazaar_data.py 29-37: run() up to the loop
Run ==
    /\ prog = "service" /\ pc = "idle"
    /\ is_running' = TRUE
    /\ handlers' = TRUE
    /\ pc' = "loop"
    /\ UNCHANGED <<prog, interval, rate_limit_delay, now, store, db, exc, result,
                   fetched, data, raw, i, item_ids, idx, all_data, cycles, sleeps,
                   signal_at, tx_base,
                   fetch_failures, response, batch, requested>>

\* collect_bazaar_data.py 39-40: the loop test; a true test starts a cycle
LoopCheck ==
    /\ pc = "loop"
    /\ IF WhileCondition(is_running)
       THEN /\ cycles < MaxCycles
            /\ cycles' = cycles + 1
            /\ pc' = "snap_fetch"
       ELSE /\ pc' = "stopped"
            /\ UNCHANGED cycles
    /\ UNCHANGED <<prog, interval, rate_limit_delay, now, store, db, exc, result,
                   fetched, is_running, handlers, data, raw, i, item_ids, idx,
                   all_data, sleeps, signal_at, tx_base,
                   fetch_failures, response, batch, requested>>

\* collectors.py 154-155, 183-185: the snapshot fetch of the cycle; its
\* exception leaves collect_and_store_current_data before a session is opened
SnapFetch ==
    /\ pc = "snap_fetch"
    /\ \E resp \in SnapshotResponses :
        LET r == GetCurrentPrices(resp)
        IN /\ tx_base' = store
           /\ response' = resp
           /\ exc' = r.exc
           /\ IF r.exc # "none"
              THEN /\ fetched' = "error"
                   /\ result' = "error"
                   /\ pc' = CollectDataCatch(r.exc)
                   /\ UNCHANGED data
              ELSE /\ fetched' = "ok"
                   /\ data' = r.prices
                   /\ pc' = "snap_open"
                   /\ UNCHANGED result
    /\ UNCHANGED <<prog, interval, rate_limit_delay, now, store, db, is_running,
                   handlers, raw, i, item_ids, idx, all_data, cycles, sleeps,
                   signal_at,
                   fetch_failures, batch, requested>>

\* collectors.py 158: db = SessionLocal()
SnapOpen ==
    /\ pc = "snap_open"
    /\ db' = SessionLocal
    /\ i' = 1
    /\ pc' = IF data = <<>> THEN "snap_commit" ELSE "snap_add"
    /\ response' = NoResponse
    /\ UNCHANGED <<prog, interval, rate_limit_delay, now, store, exc, result,
                   fetched, is_running, handlers, data, raw, item_ids, idx,
                   all_data, cycles, sleeps, signal_at, tx_base,
                   fetch_failures, batch, requested>>

\* collectors.py 161-174: one iteration of the loop over the mapping
SnapAdd ==
    /\ pc = "snap_add"
    /\ LET built == BazaarItem(SnapshotKwargs(data[i].id, data[i].item_data, now))
       IN IF built.exc # "none"
          THEN /\ exc' = built.exc
               /\ pc' = "snap_close"
               /\ UNCHANGED <<db, i>>
          ELSE /\ db' = Add(db, built.row)
               /\ i' = i + 1
               /\ pc' = IF i = Len(data) THEN "snap_commit" ELSE "snap_add"
               /\ UNCHANGED exc
    /\ UNCHANGED <<prog, interval, rate_limit_delay, now, store, result, fetched,
                   is_running, handlers, data, raw, item_ids, idx, all_data,
                   cycles, sleeps, signal_at, tx_base,
                   fetch_failures, response, batch, requested>>

\* collectors.py 177: db.commit()
SnapCommit ==
    /\ pc = "snap_commit"
    /\ \E failAt \in 0..(Len(db.pending) + 1) :
        /\ store' = Commit(store, db.pending, failAt)
        /\ exc' = IF failAt = 0 THEN "none" ELSE "DBError"
    /\ db' = [db EXCEPT !.pending = <<>>]
    /\ pc' = "snap_close"
    /\ UNCHANGED <<prog, interval, rate_limit_delay, now, result, fetched,
                   is_running, handlers, data, raw, i, item_ids, idx, all_data,
                   cycles, sleeps, signal_at, tx_base,
                   fetch_failures, response, batch, requested>>

\* collectors.py 179-185: finally db.close(), then return or re-raise into
\* collect_data; the locals of the call are gone
SnapClose ==
    /\ pc = "snap_close"
    /\ db' = Close(db)
    /\ result' = IF exc = "none" THEN "ok" ELSE "error"
    /\ pc' = CollectDataCatch(exc)
    /\ data' = <<>> /\ i' = 1 /\ exc' = "none"
    /\ UNCHANGED <<prog, interval, rate_limit_delay, now, store, fetched,
                   is_running, handlers, raw, item_ids, idx, all_data,
                   cycles, sleeps, signal_at, tx_base,
                   fetch_failures, response, batch, requested>>

\* collect_bazaar_data.py 42-47: after collect_data, wait or clear is_running
AfterCycle ==
    /\ pc = "after"
    /\ pc' = AfterCollect(interval)
    /\ IF AfterCollect(interval) = "sleep"
       THEN /\ sleeps' = sleeps + 1
            /\ UNCHANGED is_running
       ELSE /\ is_running' = FALSE
            /\ UNCHANGED sleeps
    /\ response' = NoResponse
    /\ UNCHANGED <<prog, interval, rate_limit_delay, now, store, db, exc, result,
                   fetched, handlers, data, raw, i, item_ids, idx, all_data,
                   cycles, signal_at, tx_base,
                   fetch_failures, batch, requested>>

\* collect_bazaar_data.py 45: asyncio.sleep(COLLECTION_INTERVAL) returns
SleepDone ==
    /\ pc = "sleep"
    /\ now' = now + interval
    /\ pc' = "loop"
    /\ UNCHANGED <<prog, interval, rate_limit_delay, store, db, exc, result,
                   fetched, is_running, handlers, data, raw, i, item_ids, idx,
                   all_data, cycles, sleeps, signal_at, tx_base,
                   fetch_failures, response, batch, requested>>

HandleShutdownFlag_Ignored(running) == running

\* collect_bazaar_data.py 52: self.is_running = False
HandleShutdownFlag(running) == FALSE

\* collect_bazaar_data.py 49-52: a SIGTERM or SIGINT is delivered while run()
\* is active; the handler only clears the flag
HandleShutdown ==
    /\ handlers
    /\ pc \notin {"stopped", "crashed"}
    /\ is_running' = HandleShutdownFlag(is_running)
    /\ signal_at' = IF signal_at = "no" THEN Phase(pc) ELSE signal_at
    /\ UNCHANGED <<prog, interval, rate_limit_delay, pc, now, store, db, exc,
                   result, fetched, handlers, data, raw, i, item_ids, idx,
                   all_data, cycles, sleeps, tx_base,
                   fetch_failures, response, batch, requested>>

(***************************************************************************)
(* The backfill script (collect_full_bazaar_history.py) and                *)
(* store_historical_data.                                                  *)
(***************************************************************************)
\* collect_full_bazaar_history.py 12-14, 26-27: the catalog fetch; its
\* failure ends the run
CatalogCatch_Continue(e, loop) == loop

\* collect_full_bazaar_history.py 12-14, 26-27 and collectors.py 111-114,
\* 148-150: an exception of get_all_item_ids leaves the try block, so the
\* loop over the items is never entered
CatalogCatch(e, loop) == IF e # "none" THEN "done" ELSE loop

BfCatalog ==
    /\ prog = "backfill" /\ pc = "idle"
    /\ \E resp \in CatalogResponses :
        LET r == GetAllItemIds(resp)
        IN IF r.exc # "none"
           THEN /\ fetched' = "error"
                /\ pc' = CatalogCatch(r.exc, "bf_fetch")
                /\ UNCHANGED <<item_ids, idx>>
           ELSE /\ fetched' = "ok"
                /\ item_ids' = r.ids
                /\ idx' = 1
                /\ pc' = CatalogCatch(r.exc, "bf_fetch")
    /\ UNCHANGED <<prog, interval, rate_limit_delay, now, store, db, exc, result,
                   is_running, handlers, data, raw, i, all_data, cycles, sleeps,
                   signal_at, tx_base,
                   fetch_failures, response, batch, requested>>

AfterRequestFailed_Retry(k) == k

\* collect_full_bazaar_history.py 24-25 and collectors.py 141-143: the
\* handler of a failed item logs it and the for loop takes the next item
AfterRequestFailed(k) == k + 1

\* collect_full_bazaar_history.py 18-25: the history request of one item; an
\* exception is printed and the loop goes on with the next item
BfFetch ==
    /\ pc = "bf_fetch"
    /\ idx <= Len(item_ids)
    /\ \E resp \in HistoryResponsesOver(HistoryEntries) :
        LET r == GetItemHistory(resp, item_ids[idx])
        IN /\ raw' = resp.entries
           /\ data' = r.data
           /\ IF r.exc # "none"
              THEN /\ fetched' = "error"
                   /\ fetch_failures' = fetch_failures + 1
                   /\ idx' = AfterRequestFailed(idx)
                   /\ pc' = "bf_fetch"
              ELSE /\ fetched' = "ok"
                   /\ UNCHANGED fetch_failures
                   /\ pc' = "hist_open"
                   /\ UNCHANGED idx
    /\ requested' = Append(requested, item_ids[idx])
    /\ UNCHANGED <<prog, interval, rate_limit_delay, now, store, db, exc, result,
                   is_running, handlers, i, item_ids, all_data, cycles, sleeps,
                   signal_at, tx_base, response, batch>>

\* collect_full_bazaar_history.py 18: the loop over the catalog has ended
BfDone ==
    /\ pc = "bf_fetch"
    /\ idx > Len(item_ids)
    /\ pc' = "done"
    /\ UNCHANGED <<prog, interval, rate_limit_delay, now, store, db, exc, result,
                   fetched, is_running, handlers, data, raw, i, item_ids, idx,
                   all_data, cycles, sleeps, signal_at, tx_base,
                   fetch_failures, response, batch, requested>>

\* collectors.py 190-192: db = SessionLocal()
HistOpen ==
    /\ pc = "hist_open"
    /\ db' = SessionLocal
    /\ tx_base' = store
    /\ exc' = "none"
    /\ i' = 1
    /\ pc' = IF data = <<>> THEN "hist_commit" ELSE "hist_entry"
    /\ UNCHANGED <<prog, interval, rate_limit_delay, now, store, result, fetched,
                   is_running, handlers, data, raw, item_ids, idx, all_data,
                   cycles, sleeps, signal_at,
                   fetch_failures, response, batch, requested>>

\* collectors.py 193-215: one iteration of the loop over the entries
HistEntry ==
    /\ pc = "hist_entry"
    /\ LET o == HistoryEntryOutcome(data[i], item_ids[idx], now)
       IN IF o.kind = "raise"
          THEN /\ exc' = o.exc
               /\ pc' = "hist_close"
               /\ UNCHANGED <<db, i>>
          ELSE /\ db' = IF o.kind = "add" THEN Add(db, o.row) ELSE db
               /\ i' = i + 1
               /\ pc' = IF i = Len(data) THEN "hist_commit" ELSE "hist_entry"
               /\ UNCHANGED exc
    /\ UNCHANGED <<prog, interval, rate_limit_delay, now, store, result, fetched,
                   is_running, handlers, data, raw, item_ids, idx, all_data,
                   cycles, sleeps, signal_at, tx_base,
                   fetch_failures, response, batch, requested>>

\* collectors.py 217: db.commit()
HistCommit ==
    /\ pc = "hist_commit"
    /\ \E failAt \in 0..(Len(db.pending) + 1) :
        /\ store' = Commit(store, db.pending, failAt)
        /\ exc' = IF failAt = 0 THEN "none" ELSE "DBError"
    /\ db' = [db EXCEPT !.pending = <<>>]
    /\ pc' = "hist_close"
    /\ UNCHANGED <<prog, interval, rate_limit_delay, now, result, fetched,
                   is_running, handlers, data, raw, i, item_ids, idx, all_data,
                   cycles, sleeps, signal_at, tx_base,
                   fetch_failures, response, batch, requested>>

\* collectors.py 219-223 and collect_full_bazaar_history.py 22-25: finally
\* db.close(), then return or re-raise into the script's per-item handler
HistClose ==
    /\ pc = "hist_close"
    /\ db' = Close(db)
    /\ result' = IF exc = "none" THEN "ok" ELSE "error"
    /\ idx' = idx + 1
    /\ pc' = (IF prog = "retry" THEN "retry" ELSE "bf_fetch")
    /\ data' = <<>> /\ raw' = <<>> /\ i' = 1 /\ exc' = "none"
    /\ UNCHANGED <<prog, interval, rate_limit_delay, now, store, fetched,
                   is_running, handlers, item_ids, all_data,
                   cycles, sleeps, signal_at, tx_base,
                   fetch_failures, response, batch, requested>>

(***************************************************************************)
(* BazaarDataCollector.collect_full_history.                               *)
(***************************************************************************)
\* collectors.py 111-118, 148-150: the catalog fetch; its failure is re-raised
FhCatalog ==
    /\ prog = "fullhistory" /\ pc = "idle"
    /\ \E resp \in CatalogResponses :
        LET r == GetAllItemIds(resp)
        IN IF r.exc # "none"
           THEN /\ fetched' = "error"
                /\ result' = "error"
                /\ pc' = CatalogCatch(r.exc, "fh_fetch")
                /\ UNCHANGED <<item_ids, idx>>
           ELSE /\ fetched' = "ok"
                /\ item_ids' = r.ids
                /\ idx' = 1
                /\ pc' = CatalogCatch(r.exc, "fh_fetch")
                /\ UNCHANGED result
    /\ UNCHANGED <<prog, interval, rate_limit_delay, now, store, db, exc,
                   is_running, handlers, data, raw, i, all_data, cycles, sleeps,
                   signal_at, tx_base,
                   fetch_failures, response, batch, requested>>

\* collectors.py 120-143: the request of one item and the records appended;
\* an exception skips the rest of the iteration
FhFetch ==
    /\ pc = "fh_fetch"
    /\ idx <= Len(item_ids)
    /\ \E resp \in HistoryResponsesOver(FullHistoryEntries) :
        LET r == GetItemHistory(resp, item_ids[idx])
        IN /\ raw' = resp.entries
           /\ data' = r.data
           /\ IF r.exc # "none"
              THEN /\ fetched' = "error"
                   /\ fetch_failures' = fetch_failures + 1
                   /\ idx' = AfterRequestFailed(idx)
                   /\ pc' = "fh_fetch"
                   /\ UNCHANGED all_data
              ELSE /\ fetched' = "ok"
                   /\ UNCHANGED fetch_failures
                   /\ all_data' = all_data \o
                        [k \in 1..Len(r.data) |->
                            FullHistoryRecord(r.data[k], item_ids[idx])]
                   /\ pc' = "fh_sleep"
                   /\ UNCHANGED idx
    /\ requested' = Append(requested, item_ids[idx])
    /\ UNCHANGED <<prog, interval, rate_limit_delay, now, store, db, exc, result,
                   is_running, handlers, i, item_ids, cycles, sleeps, signal_at,
                   tx_base, response, batch>>

\* collectors.py 139: time.sleep(rate_limit_delay) returns
FhSleep ==
    /\ pc = "fh_sleep"
    /\ now' = now + rate_limit_delay
    /\ idx' = idx + 1
    /\ pc' = "fh_fetch"
    /\ data' = <<>> /\ raw' = <<>>
    /\ UNCHANGED <<prog, interval, rate_limit_delay, store, db, exc, result,
                   fetched, is_running, handlers, i, item_ids,
                   all_data, cycles, sleeps, signal_at, tx_base,
                   fetch_failures, response, batch, requested>>

\* collectors.py 145-146: the loop has ended, all_data is returned
FhDone ==
    /\ pc = "fh_fetch"
    /\ idx > Len(item_ids)
    /\ result' = "ok"
    /\ pc' = "done"
    /\ UNCHANGED <<prog, interval, rate_limit_delay, now, store, db, exc,
                   fetched, is_running, handlers, data, raw, i, item_ids, idx,
                   all_data, cycles, sleeps, signal_at, tx_base,
                   fetch_failures, response, batch, requested>>

(***************************************************************************)
(* requests.get is called without a timeout: a request whose response      *)
(* never arrives blocks the calling thread for good.                       *)
(***************************************************************************)
\* collectors.py 22-24: the catalog request never returns
CatalogHangs ==
    /\ prog \in {"backfill", "fullhistory"} /\ pc = "idle"
    /\ pc' = "hung"
    /\ UNCHANGED <<prog, interval, rate_limit_delay, now, store, db, exc, result,
                   fetched, is_running, handlers, data, raw, i, item_ids, idx,
                   all_data, cycles, sleeps, signal_at, tx_base,
                   fetch_failures, response, batch, requested>>

\* collectors.py 81-84: the history request of one item never returns
RequestHangs ==
    /\ pc \in {"bf_fetch", "fh_fetch"}
    /\ idx <= Len(item_ids)
    /\ requested' = Append(requested, item_ids[idx])
    /\ pc' = "hung"
    /\ UNCHANGED <<prog, interval, rate_limit_delay, now, store, db, exc, result,
                   fetched, is_running, handlers, data, raw, i, item_ids, idx,
                   all_data, cycles, sleeps, signal_at, tx_base,
                   fetch_failures, response, batch>>

(***************************************************************************)
(* A caller of store_historical_data that stores one batch and, whatever   *)
(* the outcome, stores the same batch for the same item once more.         *)
(***************************************************************************)
\* collectors.py 187: store_historical_data(historical_data, item_id) is
\* called with the batch, the entries get_item_history returned for the item
RetryCall ==
    /\ prog = "retry" /\ pc \in {"idle", "retry"}
    /\ idx <= Len(item_ids)
    /\ raw' = batch
    /\ data' = [k \in 1..Len(batch) |-> InjectItemId(batch[k], item_ids[idx])]
    /\ pc' = "hist_open"
    /\ UNCHANGED <<prog, interval, rate_limit_delay, now, store, db, exc, result,
                   fetched, is_running, handlers, i, item_ids, idx,
                   all_data, cycles, sleeps, signal_at, tx_base,
                   fetch_failures, response, batch, requested>>

\* both calls have returned
RetryDone ==
    /\ pc = "retry"
    /\ idx > Len(item_ids)
    /\ pc' = "done"
    /\ UNCHANGED <<prog, interval, rate_limit_delay, now, store, db, exc, result,
                   fetched, is_running, handlers, data, raw, i, item_ids, idx,
                   all_data, cycles, sleeps, signal_at, tx_base,
                   fetch_failures, response, batch, requested>>

(***************************************************************************)
(* Specifications.                                                         *)
(***************************************************************************)
NextService ==
    \/ Run \/ LoopCheck \/ SnapFetch \/ SnapOpen \/ SnapAdd \/ SnapCommit
    \/ SnapClose \/ AfterCycle \/ SleepDone \/ HandleShutdown

NextBackfill ==
    \/ BfCatalog \/ BfFetch \/ BfDone \/ HistOpen \/ HistEntry \/ HistCommit
    \/ HistClose \/ CatalogHangs \/ RequestHangs

NextFullHistory ==
    \/ FhCatalog \/ FhFetch \/ FhSleep \/ FhDone
    \/ CatalogHangs \/ RequestHangs

NextRetry ==
    \/ RetryCall \/ HistOpen \/ HistEntry \/ HistCommit \/ HistClose
    \/ RetryDone

Next == NextService \/ NextBackfill \/ NextFullHistory \/ NextRetry

Spec == Init /\ [][Next]_vars

SpecService == InitOf("service") /\ [][NextService]_vars

SpecBackfill == InitOf("backfill") /\ [][NextBackfill]_vars

SpecFullHistory == InitOf("fullhistory") /\ [][NextFullHistory]_vars

SpecRetry == InitOf("retry") /\ [][NextRetry]_vars

\* The steps of collect_full_history itself; whether a response arrives is
\* the network's doing.
FullHistoryStep == FhCatalog \/ FhFetch \/ FhSleep \/ FhDone

\* Every statement of collect_full_history that can execute eventually does,
\* unless the request it waits for never returns.
SpecFullHistoryFair == SpecFullHistory /\ WF_vars(FullHistoryStep)

\* The steps of run() itself; a signal is the environment's step.
ServiceStep ==
    \/ Run \/ LoopCheck \/ SnapFetch \/ SnapOpen \/ SnapAdd \/ SnapCommit
    \/ SnapClose \/ AfterCycle \/ SleepDone

\* Every statement of run() that can execute eventually does: the fetch, the
\* database calls and the sleep all return.
SpecServiceFair == SpecService /\ WF_vars(ServiceStep)

(***************************************************************************)
(* Claims.                                                                 *)
(***************************************************************************)
\* A store call (collect_and_store_current_data, store_historical_data) is
\* not in progress.
StoreCallReturned ==
    pc \in {"after", "sleep", "loop", "stopped", "bf_fetch", "done"}

\* C1: batch storage is all-or-nothing.  When a store call raises (a database
\* error on any INSERT or on COMMIT), the table is what it was when the call
\* began: none of the batch's rows is visible, whatever the failing position.
C1_AllOrNothing ==
    /\ (pc \in {"snap_close", "hist_close"} /\ exc # "none") => store = tx_base
    /\ (StoreCallReturned /\ result = "error") => store = tx_base

\* C1 witness: the second cycle fetched a snapshot, its store call raised, and
\* the rows of the first cycle are in the table.
C1_Witness ==
    /\ pc = "after" /\ cycles = 2
    /\ fetched = "ok" /\ result = "error"
    /\ store # <<>>

\* C2: with interval > 0 the service alternates cycle, wait, cycle; a signal
\* handled during a wait prevents any further cycle from starting; a cycle in
\* flight is left only by collect_data returning, signal or not.
C2_CycleWaitCycle ==
    [][ /\ (interval > 0 /\ cycles' # cycles) => (cycles' = cycles + 1 /\ sleeps = cycles)
        /\ (interval > 0 /\ sleeps' # sleeps) => (sleeps' = sleeps + 1 /\ cycles = sleeps')
        /\ (interval > 0 /\ pc = "after" /\ pc' # pc) => pc' = "sleep"
        /\ (pc = "sleep" /\ pc' # pc) => pc' = "loop"
        /\ (interval > 0 /\ signal_at = "wait") => cycles' = cycles
        /\ (pc \in CyclePcs /\ pc' \notin CyclePcs) => pc' = "after"
        /\ (pc \in CyclePcs /\ is_running' # is_running) => pc' = pc
      ]_vars

\* C2 witness: the signal came during the wait that followed the first cycle,
\* and the service stopped without a second cycle.
C2_Witness ==
    /\ interval > 0 /\ signal_at = "wait"
    /\ pc = "stopped" /\ cycles = 1 /\ sleeps = 1

\* C3: once handle_shutdown has run, the service never starts another sleep.
C3_NoSleepAfterShutdown ==
    [][ signal_at # "no" => sleeps' = sleeps ]_vars

\* C4 as stated: with interval 0, a stopped service has performed exactly one
\* cycle and has not slept.
C4_ExactlyOneCycle ==
    (interval = 0 /\ pc = "stopped") => (cycles = 1 /\ sleeps = 0)

\* C4 amended: with interval 0 the service never sleeps, performs at most one
\* cycle, and reaches Stopped with is_running false; it has then performed
\* exactly one cycle (succeeded or failed) unless a signal was handled before
\* the first cycle started.
C4_OneShot ==
    /\ [](interval = 0 =>
            /\ sleeps = 0
            /\ cycles <= 1
            /\ pc # "sleep"
            /\ (pc = "stopped" =>
                    /\ ~is_running
                    /\ (cycles = 1 \/ signal_at = "loop")
                    /\ (cycles = 1 => result \in {"ok", "error"})))
    /\ ((interval = 0) ~> (pc = "stopped"))

\* C4 witness: interval 0, one failed cycle, stopped, no signal.
C4_Witness ==
    /\ interval = 0 /\ pc = "stopped"
    /\ cycles = 1 /\ result = "error" /\ signal_at = "no"

\* An entry all of whose conversions (timestamp, prices, volumes) succeed.
Normalizable(entry, item_id) ==
    FirstExc(HistoryArgs(entry, item_id, now)) = "none"

NormalizableCount(entries, item_id) ==
    Cardinality({k \in 1..Len(entries) : Normalizable(entries[k], item_id)})

\* C5: after the history request of some item failed, a later item whose
\* request succeeds has its entries stored (no database error occurring).
C5_LaterItemsStored ==
    (/\ pc = "hist_close" /\ fetch_failures > 0 /\ exc # "DBError"
     /\ \A k \in 1..Len(data) : Normalizable(data[k], item_ids[idx]))
    => (exc = "none" /\ Len(store) = Len(tx_base) + Len(data))

\* C6: in store_historical_data an entry that cannot be normalized is dropped
\* and never aborts the batch: the call does not raise (no database error
\* occurring) and every other entry of the batch is committed.
C6_MalformedDropped ==
    (/\ pc = "hist_close" /\ exc # "DBError"
     /\ \E k \in 1..Len(data) : ~Normalizable(data[k], item_ids[idx]))
    => (/\ exc = "none"
        /\ Len(store) = Len(tx_base) + NormalizableCount(data, item_ids[idx]))

\* C7: a failed cycle never ends the service.  No exception leaves run(); a
\* stopped service was signalled or runs with interval 0; without a signal
\* and with interval > 0 the flag stays set, and a cycle (failed or not) is
\* followed by the wait and the wait by the next cycle.
C7_FailureAbsorbed ==
    /\ [](/\ pc # "crashed"
          /\ (pc = "stopped" => (signal_at # "no" \/ interval = 0))
          /\ ((handlers /\ signal_at = "no" /\ interval > 0) => is_running))
    /\ [][ /\ (pc \in CyclePcs /\ pc' \notin CyclePcs) => pc' = "after"
           /\ (pc = "after" /\ interval > 0 /\ pc' # pc) => pc' = "sleep"
           /\ (pc = "sleep" /\ pc' # pc) => pc' = "loop"
           /\ (pc = "loop" /\ pc' # pc /\ interval > 0 /\ signal_at = "no")
                => pc' = "snap_fetch"
         ]_vars

\* C7 witness: the first cycle failed, no signal came, and the second cycle
\* has started.
C7_Witness ==
    /\ pc = "snap_fetch" /\ cycles = 2
    /\ result = "error" /\ signal_at = "no"

\* C8: no session is open outside the statements between SessionLocal() and
\* db.close(): every store call has closed its session when it returns or
\* raises.
C8_SessionClosed ==
    pc \notin {"snap_add", "snap_commit", "snap_close",
               "hist_entry", "hist_commit", "hist_close"}
        => db = NoSession

\* C8 witness: a store_historical_data call has raised and the script is at
\* the next item, with no session open.
C8_Witness ==
    /\ pc = "bf_fetch" /\ idx = 2
    /\ result = "error" /\ ~db.open

\* C9: every committed row has a non-null item_id, timestamp and numeric
\* columns.
C9_NoNullColumns ==
    \A k \in 1..Len(store) :
        \A c \in NumericColumns \cup {"item_id", "timestamp"} :
            store[k][c] # Null

\* C10: every entry get_item_history returns has an item_id, the requested
\* one where the response had none; the keyword arguments store_historical_data
\* builds, the rows it adds, and the records collect_full_history appends all
\* carry the requested item.
C10_RequestedItemId ==
    /\ [](/\ (pc \in {"hist_open", "hist_entry", "hist_commit", "hist_close", "fh_sleep"}) =>
                /\ Len(data) = Len(raw)
                /\ \A k \in 1..Len(data) :
                    /\ "item_id" \in DOMAIN data[k]
                    /\ "item_id" \notin DOMAIN raw[k]
                         => data[k]["item_id"] = Str(item_ids[idx])
          /\ (pc = "hist_entry" =>
                HistoryKwargs(data[i], item_ids[idx], now)["item_id"] = Str(item_ids[idx]))
          /\ (pc \in {"hist_entry", "hist_commit"} =>
                \A k \in 1..Len(db.pending) :
                    db.pending[k]["item_id"] = Str(item_ids[idx])))
    /\ [][ all_data' # all_data =>
            /\ Len(all_data') = Len(all_data) + Len(raw')
            /\ SubSeq(all_data', 1, Len(all_data)) = all_data
            /\ \A k \in (Len(all_data) + 1)..Len(all_data') :
                 all_data'[k]["item_id"] = Str(item_ids[idx])
         ]_vars

\* C10 witness: collect_full_history has appended the records of a response
\* holding an entry without item_id and an entry naming another item.
C10_Witness ==
    /\ pc = "fh_sleep" /\ Len(all_data) >= 2
    /\ \E k \in 1..Len(raw) : "item_id" \notin DOMAIN raw[k]
    /\ \E k \in 1..Len(raw) :
        /\ "item_id" \in DOMAIN raw[k]
        /\ raw[k]["item_id"] # Str(item_ids[idx])

\* C11: for an entry carrying both buy and buyPrice (sell and sellPrice),
\* store_historical_data takes buyPrice (sellPrice) as the price, a number.
C11_PrefersSpecific ==
    pc = "hist_entry" =>
        LET entry == data[i]
            kwargs == HistoryKwargs(entry, item_ids[idx], now)
        IN /\ ({"buy", "buyPrice"} \subseteq DOMAIN entry) =>
                /\ kwargs["buy_price"] = ToNumber(entry["buyPrice"]).v
                /\ kwargs["buy_price"].t = "num"
           /\ ({"sell", "sellPrice"} \subseteq DOMAIN entry) =>
                /\ kwargs["sell_price"] = ToNumber(entry["sellPrice"]).v
                /\ kwargs["sell_price"].t = "num"

\* The snapshot response at hand is a successful one.
GoodResponse == response.status = 200 /\ response.success = "true"

\* The product carries a non-empty quick_status.
HasQuickStatus(p) == Get(p.pd, "quick_status", EmptyDict) # EmptyDict

\* The upstream name of a key of the prices mapping.
UpstreamKey(k) ==
    CASE k = "sell_price" -> "sellPrice"
      [] k = "sell_volume" -> "sellVolume"
      [] k = "sell_moving_week" -> "sellMovingWeek"
      [] k = "buy_price" -> "buyPrice"
      [] k = "buy_volume" -> "buyVolume"
      [] OTHER -> "buyMovingWeek"

PriceKeys ==
    {"sell_price", "sell_volume", "sell_moving_week",
     "buy_price", "buy_volume", "buy_moving_week"}

\* C12: a successful snapshot response never makes get_current_prices fail;
\* the mapping holds exactly the products with a non-empty quick_status, in
\* order, each with the six keys, each value a number: the upstream value, or
\* 0 for a field missing upstream, never null.
C12_SixNumericKeys ==
    /\ (response # NoResponse /\ GoodResponse) => (pc = "snap_open" /\ fetched = "ok")
    /\ pc = "snap_open" =>
        LET kept == SelectSeq(response.products, HasQuickStatus)
        IN /\ Len(data) = Len(kept)
           /\ \A k \in 1..Len(data) :
                LET qs == kept[k].pd["quick_status"]
                    item_data == data[k].item_data
                IN /\ data[k].id = kept[k].id
                   /\ DOMAIN item_data = PriceKeys
                   /\ \A key \in PriceKeys :
                        /\ item_data[key].t = "num"
                        /\ UpstreamKey(key) \in DOMAIN qs => item_data[key] = qs[UpstreamKey(key)]
                        /\ UpstreamKey(key) \notin DOMAIN qs => item_data[key] = Num(0)

\* C13: when collect_and_store_current_data has committed without error, the
\* table is what it was before the call followed by exactly one row per item
\* of the returned mapping, in order, each with that item's id (not null) and
\* the mapping's buy/sell price and volume.
C13_OneRowPerItem ==
    (pc = "snap_close" /\ exc = "none") =>
        /\ Len(store) = Len(tx_base) + Len(data)
        /\ SubSeq(store, 1, Len(tx_base)) = tx_base
        /\ \A k \in 1..Len(data) :
            LET row == store[Len(tx_base) + k]
                item_data == data[k].item_data
            IN /\ row["item_id"] = Str(data[k].id)
               /\ row["item_id"] # Null
               /\ row["buy_price"] = item_data["buy_price"]
               /\ row["sell_price"] = item_data["sell_price"]
               /\ row["buy_volume"] = item_data["buy_volume"]
               /\ row["sell_volume"] = item_data["sell_volume"]

\* C13 witness: the second cycle has committed a mapping of two items on top
\* of the rows of the first.
C13_Witness ==
    /\ pc = "snap_close" /\ exc = "none"
    /\ Len(data) = 2 /\ tx_base # <<>>
    /\ Len(store) = Len(tx_base) + 2

\* C14: when the catalog fetch of a backfill run has failed (the only failed
\* fetch that leaves the item list empty), the run is over: no item was
\* taken from the list, no history request was made or failed, no session
\* was opened (no store call began) and the store holds no row of the run.
C14_CatalogFailureFatal ==
    (prog \in {"backfill", "fullhistory"} /\ fetched = "error" /\ item_ids = <<>>) =>
        /\ pc = "done"
        /\ idx = 1
        /\ fetch_failures = 0
        /\ raw = <<>> /\ data = <<>> /\ all_data = <<>>
        /\ db = NoSession
        /\ result # "ok"
        /\ store = <<>> /\ tx_base = <<>>

C14_Witness ==
    /\ prog = "backfill" /\ pc = "done"
    /\ fetched = "error" /\ item_ids = <<>> /\ store = <<>>

\* C15: a snapshot response with a non-success status or a false or missing
\* success flag makes get_current_prices raise; the cycle that read it ends
\* in error without a session and with the store as it was when the cycle
\* began, and a session is opened only after a good response.
C15_BadResponseFatal ==
    /\ (response # NoResponse /\ ~GoodResponse) =>
            /\ pc = "after"
            /\ exc = "Exception" /\ fetched = "error" /\ result = "error"
            /\ db = NoSession
            /\ store = tx_base
    /\ (pc = "snap_open" => GoodResponse)
    /\ (prog = "service" /\ db # NoSession => fetched = "ok")

C15_Witness ==
    /\ pc = "after" /\ fetched = "error"
    /\ response.status = 200 /\ response.success \in {"false", "missing"}
    /\ store # <<>> /\ db = NoSession

\* C16: round trip of a snapshot cycle: when the cycle has committed, every
\* field of every fetched entry (prices, volumes and the two moving-week
\* volumes) is a column of the row stored for that item at the cycle's
\* instant, with the fetched value.
C16_RoundTrip ==
    (pc = "snap_close" /\ exc = "none") =>
        \A k \in 1..Len(data) :
            \E r \in 1..Len(store) :
                /\ store[r]["item_id"] = Str(data[k].id)
                /\ store[r]["timestamp"] = Num(now)
                /\ \A f \in DOMAIN data[k].item_data :
                    /\ f \in DOMAIN store[r]
                    /\ store[r][f] = data[k].item_data[f]

\* The store_historical_data call is between its first entry and its return.
InHistoryCall == pc \in {"hist_entry", "hist_commit", "hist_close"}

\* C17 as stated: a history entry that carries no timestamp is dropped: the
\* loop logs it and goes on to the next entry without adding a row.
C17_NoTimestampRejected ==
    (pc = "hist_entry" /\ "timestamp" \notin DOMAIN data[i]) =>
        HistoryEntryOutcome(data[i], item_ids[idx], now).kind = "skip"

\* C17 amended: a history entry that carries no timestamp is not dropped for
\* lacking it: the current instant is substituted as its timestamp argument,
\* and the loop passes over such an entry only when one of its numbers does
\* not parse; snapshot rows always carry the current instant.
C17_InstantSubstituted ==
    /\ (InHistoryCall /\ i <= Len(data) /\ "timestamp" \notin DOMAIN data[i]) =>
            /\ ParsedTimestamp(data[i], now) = [exc |-> "none", v |-> Num(now)]
            /\ HistoryKwargs(data[i], item_ids[idx], now)["timestamp"] = Num(now)
    /\ InHistoryCall =>
            \A k \in 1..(i - 1) :
                (k <= Len(data) /\ "timestamp" \notin DOMAIN data[k]) =>
                    FirstExc(Tail(HistoryArgs(data[k], item_ids[idx], now))) = "ValueError"
    /\ (pc = "snap_close" /\ exc = "none") =>
            \A k \in (Len(tx_base) + 1)..Len(store) : store[k]["timestamp"] = Num(now)

C17_Witness ==
    /\ pc = "hist_close" /\ exc = "TypeError"
    /\ i = 2 /\ "timestamp" \notin DOMAIN data[i]

\* C18: storing the same batch of well-formed records a second time
\* succeeds (no database error occurring) and appends one more row per
\* record, with the same item_id and timestamp as the record's row of the
\* first store; when the first store succeeded as well, the table holds
\* twice the rows it held after the first.
C18_RetryDoubles ==
    (/\ prog = "retry" /\ pc = "hist_close" /\ idx = Len(item_ids)
     /\ exc # "DBError"
     /\ \A k \in 1..Len(batch) : Normalizable(batch[k], item_ids[idx]))
    => /\ exc = "none"
       /\ Len(store) = Len(tx_base) + Len(batch)
       /\ (result = "ok" =>
            /\ Len(store) = (Len(tx_base) + Len(tx_base))
            /\ \A k \in 1..Len(tx_base) :
                /\ store[Len(tx_base) + k]["item_id"] = store[k]["item_id"]
                /\ store[Len(tx_base) + k]["timestamp"] = store[k]["timestamp"])

\* C19: once a shutdown signal has been handled by a running service, and
\* the cycle in flight and the wait in progress finish, run() returns: the
\* service reaches Stopped.  No cycle starts after the signal, and a stopped
\* service stays stopped and starts no cycle.
C19_EventuallyStopped ==
    /\ ((signal_at # "no") ~> (pc = "stopped"))
    /\ [][ /\ (signal_at # "no" => cycles' = cycles)
           /\ (pc = "stopped" => (pc' = "stopped" /\ cycles' = cycles))
         ]_vars

\* C19 witness: the signal came during the second cycle, with a wait
\* configured, and the service has stopped after two cycles.
C19_Witness ==
    /\ pc = "stopped" /\ signal_at = "cycle"
    /\ interval > 0 /\ cycles = MaxCycles /\ sleeps = MaxCycles

\* C20: for a batch of well-formed history entries and no database error,
\* store_historical_data returns normally having committed exactly one new
\* row per entry, in order, after the rows the table already held; each row
\* carries the requested item id and the entry's parsed timestamp and prices.
C20_EveryEntryInserted ==
    (/\ pc = "hist_close" /\ exc # "DBError" /\ data # <<>>
     /\ \A k \in 1..Len(data) : Normalizable(data[k], item_ids[idx]))
    => /\ exc = "none"
       /\ Len(store) = Len(tx_base) + Len(data)
       /\ SubSeq(store, 1, Len(tx_base)) = tx_base
       /\ \A k \in 1..Len(data) :
            LET row == store[Len(tx_base) + k]
                kwargs == HistoryKwargs(data[k], item_ids[idx], now)
            IN /\ row["item_id"] = Str(item_ids[idx])
               /\ row["timestamp"] = kwargs["timestamp"]
               /\ row["buy_price"] = kwargs["buy_price"]
               /\ row["sell_price"] = kwargs["sell_price"]

\* C21: in collect_full_history with a positive rate_limit_delay, a delay
\* lies between every two successive history requests, whether the earlier
\* one succeeded or failed: when the request of the idx-th item is about to
\* be issued, one delay has elapsed for each of the idx - 1 earlier requests.
C21_DelayBetweenRequests ==
    (/\ prog = "fullhistory" /\ rate_limit_delay > 0
     /\ pc = "fh_fetch" /\ idx <= Len(item_ids))
    => now = (idx - 1) * rate_limit_delay

\* C22: a backfill run requests the history of each catalog item exactly
\* once, in catalog order, whether the request succeeds or fails: before the
\* request of item idx the requests made are those of the items before it,
\* while item idx is being processed they are those up to it, and when the
\* run has ended they are the catalog itself.
C22_EachItemOnce ==
    prog \in {"backfill", "fullhistory"} =>
        /\ Len(requested) <= Len(item_ids)
        /\ (pc \in {"bf_fetch", "fh_fetch"} =>
                /\ idx <= Len(item_ids) + 1
                /\ requested = SubSeq(item_ids, 1, idx - 1))
        /\ (pc \in {"hist_open", "hist_entry", "hist_commit", "hist_close", "fh_sleep"} =>
                /\ idx <= Len(item_ids)
                /\ requested = SubSeq(item_ids, 1, idx))
        /\ (pc = "done" => requested = item_ids)
        /\ (pc = "hung" /\ item_ids # <<>> =>
                /\ idx <= Len(item_ids)
                /\ requested = SubSeq(item_ids, 1, idx))

\* C22 witness: a run over two different items has ended; one of the two
\* requests failed and both were made.
C22_Witness ==
    /\ prog = "backfill" /\ pc = "done"
    /\ Len(item_ids) = 2 /\ item_ids[1] # item_ids[2]
    /\ fetch_failures = 1 /\ requested = item_ids

\* C23: the store is append-only: whatever step is taken (a cycle's commit,
\* a history store, a failure, a shutdown signal), the table after the step
\* begins with the table before it, row for row; no committed row is changed
\* or removed.
C23_AppendOnly ==
    [][ /\ Len(store') >= Len(store)
        /\ SubSeq(store', 1, Len(store)) = store
      ]_vars

\* C23 witness: a stopped service that was signalled holds the rows of two
\* cycles, committed at different instants.
C23_Witness ==
    /\ prog = "service" /\ pc = "stopped" /\ signal_at # "no"
    /\ cycles = 2 /\ Len(store) >= 2
    /\ store[1]["timestamp"] # store[Len(store)]["timestamp"]

\* C24: every history request eventually returns or fails, so once
\* collect_full_history has entered its loop over the catalog, and its own
\* steps are never starved, it goes past every item and terminates; one
\* item's request cannot hold it for ever.
C24_RunTerminates ==
    (pc = "fh_fetch") ~> (pc = "done")

====
